---- MODULE Spec2Model ----
(***************************************************************************)
(* z-cite-streamlit: the vector store manager (db.py), the retrieval       *)
(* layer (search.py), the ingestion pipeline (document.py, zotero.py) and *)
(* the libraries tab of the app (app.py) as a state machine.               *)
(*                                                                         *)
(* Similarities and distances are integers in units of 1/SimOne, so that   *)
(* the similarity 1.0 is SimOne and "1 - distance" is SimOne - distance.   *)
(***************************************************************************)
EXTENDS Integers, Sequences, FiniteSets, TLC

----------------------------------------------------------------------------
(* Bounds of the model *)

\* the chunks collection holds at most MaxChunks records
MaxChunks == 2
\* a source item has at most MaxArtifacts OCR attachments
MaxArtifacts == 2
\* process_library is called at most MaxRuns times
MaxRuns == 1
\* the presses of "Process Selected Libraries" in a session
MaxStarts == 1

----------------------------------------------------------------------------
(* Values *)

\* the literal 1 of "similarity = 1 - distance"
SimOne == 2

Items == {"k1", "k2"}
DocIds == {"doc_k1", "doc_k2"}
LibraryIds == {"group_A", "group_B"}
\* what ZoteroManager.get_libraries reports of a library
LibraryData ==
    {[id |-> "group_A", library_id |-> "A", name |-> "Library A",
      library_type |-> "group", description |-> "first"],
     [id |-> "group_A", library_id |-> "A", name |-> "Library A renamed",
      library_type |-> "group", description |-> ""],
     [id |-> "group_B", library_id |-> "B", name |-> "Library B",
      library_type |-> "group", description |-> ""]}
\* the library each document of the catalogue belongs to
DocLibrary == [d \in DocIds |-> IF d = "doc_k1" THEN "group_A" ELSE "group_B"]
\* f"doc_{item_key}"
DocIdOf(k) == IF k = "k1" THEN "doc_k1" ELSE "doc_k2"
Queries == {"q1"}
\* "" is what a failed artifact download yields, " a" strips to "a"
Texts == {"", "a", " a"}
Thresholds == {-1, 1}
Limits == {1, 2}
\* the texts of the chunks that add_chunk is called with directly
AddedTexts == {"", "a"}

\* library_ids: None, or a list
NoneIds == [given |-> FALSE, ids |-> <<>>]
ListIds(s) == [given |-> TRUE, ids |-> s]
LibraryIdArgs ==
    {NoneIds, ListIds(<<>>), ListIds(<<"group_A">>), ListIds(<<"group_A", "group_B">>)}

VARIABLES
    libraries,   \* libraries collection: records in insertion order
    documents,   \* documents collection
    chunks,      \* chunks collection
    searchOut,   \* the SearchManager.search call, if it was the last call on
                 \* the store: its arguments and outcome
    readOut,     \* the get_libraries / get_statistics call, if it was the last
    ocrAtt,      \* per source item, the texts of its z-cite-ocr attachments
    tmpFiles,    \* the temporary files that exist
    options,     \* the processing options of the DocumentProcessor
    procOut,     \* the last process_document call under the current options
    artifact,    \* a cached OCR artifact: the file last written or received,
                 \* and what the parser made of it
    titles,      \* per source item, its title in the source system
    lib,         \* the process_library call: its position in the loop, its
                 \* locals and what it has done
    formatOut,   \* the last format_results call: its argument and its result
    zotero_manager, \* the ZoteroManager: its key, its library and its client
    connOut,     \* the last initialize / test_connection / switch_library call
    session      \* st.session_state: the fetched libraries, the processing
                 \* status and the progress bar last rendered

vars == <<libraries, documents, chunks, searchOut, readOut,
          ocrAtt, tmpFiles, options, procOut, artifact, titles, lib,
          formatOut, zotero_manager, connOut, session>>
ingestVars == <<ocrAtt, tmpFiles, options, procOut>>
\* the variables that the operations on the store and the pipeline leave alone
\* the ZoteroManager and the last call on it
zoteroVars == <<zotero_manager, connOut>>
pureVars == <<artifact, formatOut, zoteroVars>>
\* the source catalogue and the library run
runVars == <<titles, lib, session>>

Range(s) == {s[i] : i \in 1..Len(s)}
Ids(coll) == {coll[i].id : i \in 1..Len(coll)}

----------------------------------------------------------------------------
(* The store: chromadb collections as db.py uses them *)

\* collection.add(ids=[id], ...): a record whose id the collection already
\* holds is ignored, otherwise the record is appended
CollectionAdd(coll, rec) ==
    IF rec.id \in Ids(coll) THEN coll ELSE Append(coll, rec)

\* the distance the store reports between a chunk text and a query text: the
\* collections are created without a distance metric, so the store's default
\* (squared L2) applies and a distance may exceed 1
Distance(text, query) ==
    IF text = "" THEN 3 ELSE IF text = "a" THEN 1 ELSE 0

\* documents_collection.get(where={"library_id": lib_id})["ids"]
DocsOfLibrary(lib_id) ==
    SelectSeq(documents, LAMBDA d : d.metadata.library_id = lib_id)

RECURSIVE LibraryDocs(_)
\* the loop over library_ids that collects library_docs
LibraryDocs(ids) ==
    IF ids = <<>> THEN <<>>
    ELSE LET docs == DocsOfLibrary(Head(ids))
         IN  [i \in 1..Len(docs) |-> docs[i].id] \o LibraryDocs(Tail(ids))

NoWhere == [filtered |-> FALSE, document_ids |-> {}]

\* the library filter dropped
WhereClauseUnfiltered(library_ids) == NoWhere

\* an explicit empty list taken as "no library": nothing matches
WhereClauseEmptyMatchesNothing(library_ids) ==
    IF library_ids.given
    THEN [filtered |-> TRUE, document_ids |-> Range(LibraryDocs(library_ids.ids))]
    ELSE NoWhere

\* where_clause of search_chunks
WhereClause(library_ids) ==
    IF library_ids.given /\ library_ids.ids # <<>>
    THEN LET library_docs == LibraryDocs(library_ids.ids)
         IN  IF library_docs # <<>>
             THEN [filtered |-> TRUE, document_ids |-> Range(library_docs)]
             ELSE NoWhere
    ELSE NoWhere

Min(a, b) == IF a < b THEN a ELSE b

\* chunks_collection.query(query_texts=[query], n_results=n, where=w): the
\* indexes of the n nearest matching chunks, nearest first; chunks at equal
\* distance come in an order the store chooses
QueryResults(query, n, w) ==
    LET cand == {i \in 1..Len(chunks) :
                    w.filtered => chunks[i].document_id \in w.document_ids}
        k == Min(n, Cardinality(cand))
        dist(i) == Distance(chunks[i].text, query)
    IN  {s \in [1..k -> cand] :
            /\ \A i, j \in 1..k : i < j => s[i] # s[j] /\ dist(s[i]) <= dist(s[j])
            /\ \A c \in cand \ {s[i] : i \in 1..k} :
                   \A i \in 1..k : dist(s[i]) <= dist(c)}

\* documents_collection.get(ids=[doc_id]): {} when there is no such document
DocumentMetadata(doc_id) ==
    {documents[i].metadata : i \in {j \in 1..Len(documents) : documents[j].id = doc_id}}

\* the comparison inverted
BelowThresholdInverted(similarity, threshold) == similarity > threshold

\* "if similarity < threshold: continue"
BelowThreshold(similarity, threshold) == similarity < threshold

RECURSIVE ProcessResults(_, _, _)
\* the loop of search_chunks over the store's results (a query always
\* reports the distances)
ProcessResults(hits, query, threshold) ==
    IF hits = <<>> THEN <<>>
    ELSE LET c == chunks[Head(hits)]
             similarity == SimOne - Distance(c.text, query)
             rest == ProcessResults(Tail(hits), query, threshold)
         IN  IF BelowThreshold(similarity, threshold)
             THEN rest
             ELSE <<[chunk_id |-> c.id,
                     document_id |-> c.document_id,
                     text |-> c.text,
                     document_metadata |-> DocumentMetadata(c.document_id),
                     similarity |-> similarity]>> \o rest

----------------------------------------------------------------------------
(* search.py *)

\* an ascending sort that is then reversed: equal keys end up reversed
InsertDescendingTiesReversed(x, s) ==
    LET before == {i \in 1..Len(s) : s[i].similarity > x.similarity}
        k == Cardinality(before)
    IN  SubSeq(s, 1, k) \o <<x>> \o SubSeq(s, k + 1, Len(s))

\* list.sort(key=similarity, reverse=True) keeps equal keys in their order:
\* x goes behind every element whose similarity is at least its own
InsertDescending(x, s) ==
    LET before == {i \in 1..Len(s) : s[i].similarity >= x.similarity}
        k == Cardinality(before)
    IN  SubSeq(s, 1, k) \o <<x>> \o SubSeq(s, k + 1, Len(s))

RECURSIVE SortFrom(_, _)
SortFrom(done, todo) ==
    IF todo = <<>> THEN done
    ELSE SortFrom(InsertDescending(Head(todo), done), Tail(todo))

SortBySimilarity(s) == SortFrom(<<>>, s)

----------------------------------------------------------------------------
(* Initial state: an empty store *)

NoSearch ==
    [status |-> "none", query |-> "", n_results |-> 0, threshold |-> 0,
     library_ids |-> NoneIds, raw |-> <<>>, results |-> <<>>]

NoStatistics == [libraries |-> 0, documents |-> 0, chunks |-> 0]

NoLibraryData ==
    [id |-> "", library_id |-> "", name |-> "", library_type |-> "", description |-> ""]

NoRead == [op |-> "none", status |-> "none", failed |-> FALSE, ok |-> FALSE,
           library_data |-> NoLibraryData,
           libraries |-> <<>>, statistics |-> NoStatistics]

\* DocumentProcessor.__init__
DefaultOptions ==
    [chunk_size |-> 512, chunk_overlap |-> 50, store_ocr |-> TRUE,
     use_stored_ocr |-> TRUE, always_rerun_ocr |-> FALSE]

\* text: the text the call obtained, {} when it obtained none
NoProc == [doc |-> "", title |-> "", ret |-> FALSE, calls |-> {}, had_ocr |-> FALSE,
           text |-> {}]

NoFormat == [called |-> FALSE, results |-> <<>>, results_after |-> <<>>, formatted |-> <<>>]

\* no process_library call yet
NoRun ==
    [run |-> 0, pc |-> "idle", callback |-> FALSE, documents |-> <<>>, total_documents |-> 0,
     i |-> 0, processed_documents |-> 0, errors |-> <<>>,
     reported |-> <<>>, visited |-> <<>>, attempted |-> <<>>]

\* None
None == ""

\* self.zot = None
NoClient == [library_id |-> None, library_type |-> None, api_key |-> None]

\* ZoteroManager.__init__ without an API key
NoZotero == [api_key |-> None, library_type |-> None, library_id |-> None, zot |-> NoClient]

NoCall == [op |-> "none", ret |-> FALSE, raised |-> FALSE]

\* "progress" as last handed to st.progress
NoProgress == [rendered |-> FALSE, processed_documents |-> 0, total_documents |-> 0]

\* the processing status that the UI sets when processing starts
StatusFor(ids) ==
    [active |-> TRUE, libraries |-> ids, current_library |-> None,
     current_document |-> None, total_documents |-> 0, processed_documents |-> 0,
     current_index |-> 0, stage |-> "OCR", errors |-> <<>>]

\* a session before processing_status is set: the status section shows the
\* hint and nothing else
NoStatus == [StatusFor(<<>>) EXCEPT !.active = FALSE]

\* pc: "idle" between script runs, "rerun" when st.rerun() has asked for
\* the next run, "status" when a run has reached the status section of the
\* libraries tab, "library" inside the process_library call of that section
NoSession ==
    [zotero_libraries |-> <<>>, processing_status |-> NoStatus, pc |-> "idle",
     started |-> 0, progress |-> NoProgress]

NoParse == [done |-> FALSE, fetched |-> FALSE, ocr_text |-> <<>>, version_hash |-> <<>>]
NoArtifact == [origin |-> "none", ocr_text |-> <<>>, content |-> <<>>, parsed |-> NoParse]

Init ==
    /\ libraries = <<>>
    /\ documents = <<>>
    /\ chunks = <<>>
    /\ searchOut = NoSearch
    /\ readOut = NoRead
    /\ ocrAtt = [k \in Items |-> <<>>]
    /\ tmpFiles = {}
    /\ options = DefaultOptions
    /\ procOut = NoProc
    /\ artifact = NoArtifact
    /\ titles = [k \in Items |-> "t1"]
    /\ lib = NoRun
    /\ formatOut = NoFormat
    /\ zotero_manager = NoZotero
    /\ connOut = NoCall
    /\ session = NoSession

----------------------------------------------------------------------------
(* Operations of ChromaDBManager *)

\* add_document(doc_id, metadata)
AddDocument ==
    \E d \in DocIds :
        /\ documents' = CollectionAdd(documents,
                            [id |-> d, metadata |-> [library_id |-> DocLibrary[d]]])
        /\ searchOut' = NoSearch
        /\ readOut' = NoRead
        /\ UNCHANGED <<libraries, chunks>>
        /\ UNCHANGED ingestVars
        /\ UNCHANGED pureVars
        /\ UNCHANGED runVars

\* add_chunk(chunk_id, document_id, text, metadata) with a fresh chunk id
AddChunk ==
    \E d \in DocIds, t \in AddedTexts :
        /\ Len(chunks) < MaxChunks
        /\ chunks' = CollectionAdd(chunks,
                        [id |-> Len(chunks) + 1, document_id |-> d, text |-> t])
        /\ searchOut' = NoSearch
        /\ readOut' = NoRead
        /\ UNCHANGED <<libraries, documents>>
        /\ UNCHANGED ingestVars
        /\ UNCHANGED pureVars
        /\ UNCHANGED runVars

\* SearchManager.search: search_chunks, then the sort
Search ==
    \E q \in Queries, n \in Limits, t \in Thresholds, l \in LibraryIdArgs,
       storeFails \in BOOLEAN :
        /\ IF storeFails
           THEN searchOut' = [NoSearch EXCEPT !.status = "raised"]
           ELSE \E hits \in QueryResults(q, n, WhereClause(l)) :
                   LET raw == ProcessResults(hits, q, t)
                   IN  searchOut' = [status |-> "returned", query |-> q,
                                     n_results |-> n, threshold |-> t,
                                     library_ids |-> l, raw |-> raw,
                                     results |-> SortBySimilarity(raw)]
        /\ readOut' = NoRead
        /\ UNCHANGED <<libraries, documents, chunks>>
        /\ UNCHANGED ingestVars
        /\ UNCHANGED pureVars
        /\ UNCHANGED runVars

\* the metadata DocumentProcessor.add_library stores
LibraryMetadata(library_data) ==
    [zotero_id |-> library_data.library_id,
     name |-> library_data.name,
     library_type |-> library_data.library_type,
     description |-> library_data.description,
     auto_update |-> TRUE,
     last_pulled |-> ""]

\* DocumentProcessor.add_library: ChromaDBManager.add_library inside a
\* try/except that turns a failure of the store into the result False
AddLibrary ==
    \E library_data \in LibraryData, storeFails \in BOOLEAN :
        /\ libraries' =
               IF storeFails THEN libraries
               ELSE CollectionAdd(libraries,
                        [id |-> library_data.id, metadata |-> LibraryMetadata(library_data)])
        /\ readOut' = [NoRead EXCEPT !.op = "add_library", !.status = "returned",
                                     !.failed = storeFails, !.ok = ~storeFails,
                                     !.library_data = library_data]
        /\ searchOut' = NoSearch
        /\ UNCHANGED <<documents, chunks>>
        /\ UNCHANGED ingestVars
        /\ UNCHANGED pureVars
        /\ UNCHANGED runVars

\* the list get_libraries builds from libraries_collection.get()
LibraryList(libs) == [i \in 1..Len(libs) |-> [id |-> libs[i].id, metadata |-> libs[i].metadata]]

\* get_libraries: a failure of the store is caught and gives []
GetLibraries ==
    \E storeFails \in BOOLEAN :
        /\ readOut' = [NoRead EXCEPT !.op = "get_libraries", !.status = "returned",
                                     !.failed = storeFails,
                                     !.libraries = IF storeFails THEN <<>>
                                                   ELSE LibraryList(libraries)]
        /\ searchOut' = NoSearch
        /\ UNCHANGED <<libraries, documents, chunks>>
        /\ UNCHANGED ingestVars
        /\ UNCHANGED pureVars
        /\ UNCHANGED runVars

\* the chunks counted from the documents collection
StatisticsOfDocumentsTwice(libs, docs, chks) ==
    [libraries |-> Len(libs), documents |-> Len(docs), chunks |-> Len(docs)]

\* the dictionary get_statistics builds from the three collections
StatisticsOf(libs, docs, chks) ==
    [libraries |-> Len(libs), documents |-> Len(docs), chunks |-> Len(chks)]

\* get_statistics: a failure of the store is caught and gives all zeros
GetStatistics ==
    \E storeFails \in BOOLEAN :
        /\ readOut' = [NoRead EXCEPT !.op = "get_statistics", !.status = "returned",
                                     !.failed = storeFails,
                                     !.statistics = IF storeFails THEN NoStatistics
                                                    ELSE StatisticsOf(libraries, documents, chunks)]
        /\ searchOut' = NoSearch
        /\ UNCHANGED <<libraries, documents, chunks>>
        /\ UNCHANGED ingestVars
        /\ UNCHANGED pureVars
        /\ UNCHANGED runVars

----------------------------------------------------------------------------
(* The ingestion pipeline: document.py over zotero.py and ocr.py *)

PdfTemp == "pdf"
TxtTemp == "txt"

\* what the OCR collaborator returns: a text, possibly empty
OcrTexts == {"", " a"}
\* the chunk_size and chunk_overlap that set_processing_options is called with
ChunkSettings ==
    {[chunk_size |-> 512, chunk_overlap |-> 50], [chunk_size |-> 256, chunk_overlap |-> 25]}
\* the items whose documents are ingested
IngestItems == {"k1"}

\* str.strip() on the texts of the model
Strip(text) == IF text = " a" THEN "a" ELSE text

\* find_ocr_attachment: the position of the z-cite-ocr text attachment that
\* comes first among the item's children (the server chooses their order), or
\* 0 for None: there is none, or zot.children raised
FindOcrAttachment(k) == {0} \cup (1..Len(ocrAtt[k]))

\* download_and_parse_ocr_attachment: the stripped text behind the separator
\* line, or "" when the download or the decoding raised
DownloadAndParse(k, i) == {Strip(ocrAtt[k][i]), ""}

\* store_ocr_as_attachment(k, text): the item's OCR attachments afterwards and
\* the temporary file left behind. The text is written to a temporary file;
\* an attachment that find_ocr_attachment finds is updated, otherwise a new
\* one is created; when the upload raises, the result is False and the
\* temporary file is not unlinked
StoreOcrAsAttachment(k, text) ==
    UNION {
        {[att |-> ocrAtt[k], files |-> {TxtTemp}]} \cup
        (IF i # 0
         THEN {[att |-> [ocrAtt[k] EXCEPT ![i] = text], files |-> {}]}
         ELSE IF Len(ocrAtt[k]) < MaxArtifacts
              THEN {[att |-> Append(ocrAtt[k], text), files |-> {}]}
              ELSE {})
        : i \in FindOcrAttachment(k)}

\* os.unlink(temp_path) after a failed download
Unlink(files) == files \ {PdfTemp}

\* the cleanup left out
FinallyNoCleanup(files) == files

\* finally: if os.path.exists(temp_path): os.unlink(temp_path)
Finally(files) == IF PdfTemp \in files THEN files \ {PdfTemp} ELSE files

\* always_rerun_ocr left out of the condition
UseStoredOcrWheneverSet == options.use_stored_ocr

\* the condition under which process_document consults the stored OCR text
UseStoredOcr == options.use_stored_ocr /\ ~options.always_rerun_ocr

\* the end of a process_document call on item k that obtained the texts
\* of obtained (one text, or none)
FinishWith(k, ret, calls, obtained, att, files, docs, chks) ==
    /\ ocrAtt' = [ocrAtt EXCEPT ![k] = att]
    /\ tmpFiles' = files
    /\ documents' = docs
    /\ chunks' = chks
    /\ procOut' = [doc |-> DocIdOf(k), title |-> titles[k], ret |-> ret,
                   calls |-> calls, had_ocr |-> ocrAtt[k] # <<>>,
                   text |-> obtained]
    /\ searchOut' = NoSearch
    /\ readOut' = NoRead
    /\ UNCHANGED <<libraries, options, titles>>
    /\ UNCHANGED pureVars

\* the end of a process_document call on item k before it has a text
Finish(k, ret, calls, att, files, docs, chks) ==
    FinishWith(k, ret, calls, {}, att, files, docs, chks)

\* str(hash(ocr_text))
HashOf(text) == <<"hash", text>>

\* a chunk that holds the first chunk_size characters of the text
ChunkRecordSized(chunk_id, k, text) ==
    [id |-> chunk_id, document_id |-> DocIdOf(k),
     text |-> IF options.chunk_size < 512 THEN "" ELSE text,
     metadata |-> [page_number |-> 1, section |-> "Full Document",
                   version_hash |-> HashOf(text)]]

\* the chunk process_document hands to add_chunk: the whole text, with the
\* metadata of a one-chunk document
ChunkRecord(chunk_id, k, text) ==
    [id |-> chunk_id, document_id |-> DocIdOf(k), text |-> text,
     metadata |-> [page_number |-> 1, section |-> "Full Document",
                   version_hash |-> HashOf(text)]]

\* the Document record that process_document writes for item k
DocumentRecord(k) ==
    [id |-> DocIdOf(k),
     metadata |-> [library_id |-> DocLibrary[DocIdOf(k)], title |-> titles[k]]]

\* the Document record not written
WithDocumentUnwritten(k) == documents

\* the documents collection after add_document(doc_id, {...})
WithDocument(k) == CollectionAdd(documents, DocumentRecord(k))

\* add_document, then add_chunk with a generated chunk id; a write that raises
\* ends the call with False
Persist(k, text, calls, att, files) ==
    \E documentFails \in BOOLEAN :
        IF documentFails
        THEN FinishWith(k, FALSE, calls \cup {"add_document"}, {text}, att, files,
                        documents, chunks)
        ELSE LET docs == WithDocument(k)
                 calls2 == calls \cup {"add_document", "add_chunk"}
             IN  \E chunkFails \in BOOLEAN :
                     IF chunkFails
                     THEN FinishWith(k, FALSE, calls2, {text}, att, files, docs, chunks)
                     ELSE /\ Len(chunks) < MaxChunks
                          /\ FinishWith(k, TRUE, calls2, {text}, att, files, docs,
                                        CollectionAdd(chunks,
                                            ChunkRecord(Len(chunks) + 1, k, text)))

\* a document and an empty chunk written although there is no PDF
NoPdfAttachmentPersists(k, calls) == Persist(k, "", calls, ocrAtt[k], tmpFiles)

\* "if not pdf_attachment: return False"
NoPdfAttachment(k, calls) ==
    Finish(k, FALSE, calls, ocrAtt[k], tmpFiles, documents, chunks)

\* the extraction path: locate the PDF, download it to a temporary file, run
\* the OCR, store the text back when store_ocr is set
Extract(k, calls) ==
    LET calls1 == calls \cup {"get_pdf_attachment"}
        calls2 == calls1 \cup {"download_pdf"}
        calls3 == calls2 \cup {"process_pdf"}
        calls4 == calls3 \cup {"store_ocr_as_attachment"}
        created == tmpFiles \cup {PdfTemp}
    IN  \E pdf_attachment \in BOOLEAN :
            IF ~pdf_attachment
            THEN NoPdfAttachment(k, calls1)
            ELSE \E downloaded \in BOOLEAN :
                IF ~downloaded
                THEN Finish(k, FALSE, calls2, ocrAtt[k], Finally(Unlink(created)),
                            documents, chunks)
                ELSE \E ocrRaises \in BOOLEAN :
                    IF ocrRaises
                    THEN Finish(k, FALSE, calls3, ocrAtt[k], Finally(created),
                                documents, chunks)
                    ELSE \E ocr_text \in OcrTexts :
                        IF options.store_ocr
                        THEN \E stored \in StoreOcrAsAttachment(k, ocr_text) :
                                Persist(k, ocr_text, calls4, stored.att,
                                        Finally(created \cup stored.files))
                        ELSE Persist(k, ocr_text, calls3, ocrAtt[k], Finally(created))

\* process_document on the document of item k
ProcessDocumentOf(k) ==
    IF UseStoredOcr
    THEN \E ocr_attachment \in FindOcrAttachment(k) :
            LET calls1 == {"find_ocr_attachment"}
                calls2 == calls1 \cup {"download_and_parse_ocr_attachment"}
            IN  IF ocr_attachment # 0
                THEN \E ocr_text \in DownloadAndParse(k, ocr_attachment) :
                        IF options.always_rerun_ocr
                        THEN Extract(k, calls2)
                        ELSE Persist(k, ocr_text, calls2, ocrAtt[k], tmpFiles)
                ELSE Extract(k, calls1)
    ELSE Extract(k, {})

\* DocumentProcessor.process_document, called on its own
ProcessDocument ==
    \E k \in IngestItems :
        /\ lib.pc # "loop"
        /\ ProcessDocumentOf(k)
        /\ UNCHANGED <<lib, session>>

\* DocumentProcessor.set_processing_options
SetProcessingOptions ==
    \E c \in ChunkSettings, store_ocr \in BOOLEAN, use_stored_ocr \in BOOLEAN,
       always_rerun_ocr \in BOOLEAN :
        /\ options' = [chunk_size |-> c.chunk_size, chunk_overlap |-> c.chunk_overlap,
                       store_ocr |-> store_ocr, use_stored_ocr |-> use_stored_ocr,
                       always_rerun_ocr |-> always_rerun_ocr]
        /\ procOut' = NoProc
        /\ UNCHANGED <<libraries, documents, chunks, searchOut, readOut, ocrAtt, tmpFiles>>
        /\ UNCHANGED pureVars
        /\ UNCHANGED runVars

----------------------------------------------------------------------------
(* process_library: the loop over the documents of a library *)

\* the titles an item may have in the source system
Titles == {"t1", "t2"}

\* what get_documents returns: the items of the library that have a PDF
DocumentLists == {<<>>, <<"k1">>, <<"k1", "k2">>, <<"k2", "k1">>}

\* limit: None, or an integer
NoLimit == [given |-> FALSE, value |-> 0]
Limit(n) == [given |-> TRUE, value |-> n]
LimitArgs == {NoLimit, Limit(0), Limit(1)}

\* the document entries get_documents builds
DocumentsOf(keys) ==
    [j \in 1..Len(keys) |-> [id |-> DocIdOf(keys[j]), zotero_key |-> keys[j],
                             title |-> titles[keys[j]]]]

\* "if limit is not None and limit > 0: documents = documents[:limit]"
Limited(listed, limit) ==
    IF limit.given /\ limit.value > 0
    THEN SubSeq(listed, 1, Min(limit.value, Len(listed)))
    ELSE listed

\* the position after an iteration of the loop
AfterIteration(run) == IF run.i + 1 = run.total_documents THEN "returned" ELSE "loop"

\* the failure of a document left out of the errors
ErrorsAfterUnrecorded(errors, document, success) == errors

\* "if success: processed_documents += 1 else: errors.append(...)"
ErrorsAfter(errors, document, success) ==
    IF success THEN errors
    ELSE Append(errors, [kind |-> "Failed to process", title |-> document.title])

\* callback(i, total_documents, document["title"], "OCR")
Report(run, document) ==
    [i |-> run.i, total |-> run.total_documents, title |-> document.title, stage |-> "OCR"]

\* process_library up to its loop: get_documents, the limit, the counters
ProcessLibraryBegin ==
    \E keys \in DocumentLists, limit \in LimitArgs, callback \in BOOLEAN :
        /\ session.pc # "library"
        /\ lib.pc # "loop"
        /\ lib.run < MaxRuns
        /\ LET listed == Limited(DocumentsOf(keys), limit)
           IN  lib' = [NoRun EXCEPT
                          !.run = lib.run + 1,
                          !.pc = IF listed = <<>> THEN "returned" ELSE "loop",
                          !.callback = callback,
                          !.documents = listed,
                          !.total_documents = Len(listed)]
        /\ UNCHANGED <<libraries, documents, chunks, searchOut, readOut, titles, session>>
        /\ UNCHANGED ingestVars
        /\ UNCHANGED pureVars

\* the body of the loop without the callback: process_document, then the
\* count or the error
ProcessLibraryDocumentBody(document, reported) ==
    /\ ProcessDocumentOf(document.zotero_key)
    /\ lib' = [lib EXCEPT
                  !.pc = AfterIteration(lib),
                  !.i = @ + 1,
                  !.processed_documents = IF procOut'.ret THEN @ + 1 ELSE @,
                  !.errors = ErrorsAfter(@, document, procOut'.ret),
                  !.reported = reported,
                  !.visited = Append(@, document.zotero_key),
                  !.attempted = Append(@, document.zotero_key)]

\* one iteration of the loop of process_library; an exception of the
\* callback is caught and recorded as an error of the document
ProcessLibraryDocument ==
    /\ session.pc # "library"
    /\ lib.pc = "loop"
    /\ UNCHANGED session
    /\ LET document == lib.documents[lib.i + 1]
           reported == Append(lib.reported, Report(lib, document))
       IN  IF lib.callback
           THEN \E callbackRaises \in BOOLEAN :
                   IF callbackRaises
                   THEN /\ lib' = [lib EXCEPT
                                      !.pc = AfterIteration(lib),
                                      !.i = @ + 1,
                                      !.errors = Append(@, [kind |-> "Error processing",
                                                            title |-> document.title]),
                                      !.reported = reported,
                                      !.visited = Append(@, document.zotero_key)]
                        /\ UNCHANGED <<libraries, documents, chunks, searchOut,
                                       readOut, titles>>
                        /\ UNCHANGED ingestVars
                        /\ UNCHANGED pureVars
                   ELSE ProcessLibraryDocumentBody(document, reported)
           ELSE ProcessLibraryDocumentBody(document, lib.reported)

NextLibrary == ProcessLibraryBegin \/ ProcessLibraryDocument

SpecLibrary == Init /\ [][NextLibrary]_vars

----------------------------------------------------------------------------
(* The libraries tab of the app (app.py): a script run handles the button  *)
(* that was pressed, if any, and then reaches the status section, which    *)
(* processes the next library and asks for a rerun.                        *)

\* the entries ZoteroManager.get_libraries builds for the groups of the key
AppLibrary(group) ==
    [id |-> "group_" \o group, library_id |-> group, name |-> "Library " \o group,
     library_type |-> "group", description |-> ""]
\* what "Fetch Libraries" receives: the groups the key has access to at the
\* time
FetchedLists ==
    {<<AppLibrary("A")>>, <<AppLibrary("A"), AppLibrary("B"), AppLibrary("C")>>}

\* what get_documents returns for a library of the app
AppDocumentLists == {<<>>, <<"k1">>}

\* the ids of the checkboxes that are ticked, in the order of the list: the
\* first n of the fetched libraries
Selections(fetched) ==
    {[i \in 1..n |-> fetched[i].id] : n \in 1..Len(fetched)}

\* next((lib for lib in zotero_libraries if lib["id"] == lib_id), None)
LibData(lib_id) == SelectSeq(session.zotero_libraries, LAMBDA l : l.id = lib_id)

RECURSIVE AddSelected(_, _, _)
\* "for lib_id in selected_libraries": add_library for a library that was
\* fetched and that the store does not list; the libraries of failing are
\* those whose write raises (none, or all: the store is down)
AddSelected(libs, selected, failing) ==
    IF selected = <<>> THEN libs
    ELSE LET lib_id == Head(selected)
             found == LibData(lib_id)
             added == IF found # <<>> /\ lib_id \notin Ids(libraries)
                         /\ lib_id \notin failing
                      THEN CollectionAdd(libs, [id |-> lib_id,
                                                metadata |-> LibraryMetadata(found[1])])
                      ELSE libs
         IN  AddSelected(added, Tail(selected), failing)

\* a run that handles "Fetch Libraries": a list that is not empty is put
\* into the session state
FetchLibraries ==
    \E fetched \in FetchedLists :
        /\ session.pc \in {"idle", "rerun"}
        /\ session' = [session EXCEPT !.zotero_libraries = fetched, !.pc = "status"]
        /\ UNCHANGED <<libraries, documents, chunks, searchOut, readOut, titles, lib>>
        /\ UNCHANGED ingestVars
        /\ UNCHANGED pureVars

\* a run that handles "Process Selected Libraries": the selected libraries
\* are added to the store, the processing status is set and st.rerun() is
\* called
ProcessSelectedLibraries ==
    \E selected \in Selections(session.zotero_libraries) :
      \E failing \in {{}, Range(selected)} :
        /\ session.pc \in {"idle", "rerun"}
        /\ session.started < MaxStarts
        /\ libraries' = AddSelected(libraries, selected, failing)
        /\ session' = [session EXCEPT !.processing_status = StatusFor(selected),
                                      !.started = @ + 1,
                                      !.progress = NoProgress,
                                      !.pc = "rerun"]
        /\ searchOut' = NoSearch
        /\ readOut' = NoRead
        /\ UNCHANGED <<documents, chunks, titles, lib>>
        /\ UNCHANGED ingestVars
        /\ UNCHANGED pureVars

\* the run that st.rerun() asked for, or a run after any other interaction:
\* it has no button to handle and reaches the status section
Rerun ==
    /\ session.pc \in {"idle", "rerun"}
    /\ session' = [session EXCEPT !.pc = "status"]
    /\ UNCHANGED <<libraries, documents, chunks, searchOut, readOut, titles, lib>>
    /\ UNCHANGED ingestVars
    /\ UNCHANGED pureVars

\* st.progress(progress, ...) raises for a value outside [0.0, 1.0], which
\* ends the run
ProgressRaises(status) ==
    status.total_documents > 0 /\ status.processed_documents > status.total_documents

\* what the status section hands to st.progress
Progress(status) ==
    IF status.total_documents > 0
    THEN [rendered |-> TRUE, processed_documents |-> status.processed_documents,
          total_documents |-> status.total_documents]
    ELSE NoProgress

\* the status section of a run: the progress bar, then the next library is
\* taken from the head of the list; process_library is entered when the
\* library is among the fetched ones, and nothing more happens when it is
\* not
StatusSection ==
    /\ session.pc = "status"
    /\ LET status == session.processing_status
       IN  IF ~status.active
           THEN /\ session' = [session EXCEPT !.pc = "idle"]
                /\ UNCHANGED lib
           ELSE IF ProgressRaises(status)
           THEN /\ session' = [session EXCEPT !.pc = "idle", !.progress = Progress(status)]
                /\ UNCHANGED lib
           ELSE IF status.current_library # None \/ status.libraries = <<>>
           THEN /\ session' = [session EXCEPT !.pc = "idle", !.progress = Progress(status)]
                /\ UNCHANGED lib
           ELSE LET lib_id == Head(status.libraries)
                IN  IF LibData(lib_id) = <<>>
                    THEN /\ session' = [session EXCEPT
                                            !.pc = "idle",
                                            !.progress = Progress(status),
                                            !.processing_status.current_library = lib_id]
                         /\ UNCHANGED lib
                    ELSE \E keys \in AppDocumentLists :
                            LET listed == DocumentsOf(keys)
                            IN  /\ session' = [session EXCEPT
                                                   !.pc = "library",
                                                   !.progress = Progress(status),
                                                   !.processing_status.current_library = lib_id]
                                /\ lib' = [NoRun EXCEPT
                                              !.run = lib.run + 1,
                                              !.pc = IF listed = <<>> THEN "returned" ELSE "loop",
                                              !.callback = TRUE,
                                              !.documents = listed,
                                              !.total_documents = Len(listed)]
    /\ UNCHANGED <<libraries, documents, chunks, searchOut, readOut, titles>>
    /\ UNCHANGED ingestVars
    /\ UNCHANGED pureVars

\* progress_callback(index, total, document_title, stage)
ProgressCallback(status, report) ==
    [status EXCEPT !.current_index = report.i,
                   !.total_documents = report.total,
                   !.current_document = report.title,
                   !.stage = report.stage]

\* an iteration of process_library inside the status section: the callback
\* writes into the processing status, then the document is processed
StatusDocument ==
    /\ session.pc = "library"
    /\ lib.pc = "loop"
    /\ LET document == lib.documents[lib.i + 1]
           report == Report(lib, document)
       IN  /\ session' = [session EXCEPT
                              !.processing_status = ProgressCallback(@, report)]
           /\ ProcessLibraryDocumentBody(document, Append(lib.reported, report))

\* "Update status": the count, the errors, the library popped, and the
\* status set inactive when no library is left
StatusAfter(status, total, processed, errors) ==
    [status EXCEPT !.processed_documents = @ + processed,
                   !.errors = @ \o errors,
                   !.libraries = Tail(@),
                   !.current_library = None,
                   !.active = Tail(status.libraries) # <<>>]

\* process_library has returned: the status is updated and st.rerun() is
\* called
StatusLibraryDone ==
    /\ session.pc = "library"
    /\ lib.pc = "returned"
    /\ session' = [session EXCEPT
                      !.processing_status =
                          StatusAfter(@, lib.total_documents, lib.processed_documents,
                                      lib.errors),
                      !.pc = "rerun"]
    /\ UNCHANGED <<libraries, documents, chunks, searchOut, readOut, titles, lib>>
    /\ UNCHANGED ingestVars
    /\ UNCHANGED pureVars

NextApp ==
    \/ FetchLibraries \/ ProcessSelectedLibraries \/ Rerun
    \/ StatusSection \/ StatusDocument \/ StatusLibraryDone

SpecApp == Init /\ [][NextApp]_vars

\* a run that was started runs on, and the rerun that st.rerun() asked for
\* takes place
AppFairness ==
    /\ WF_vars(session.pc = "rerun" /\ Rerun)
    /\ WF_vars(StatusSection)
    /\ WF_vars(StatusDocument)
    /\ WF_vars(StatusLibraryDone)

SpecAppLive == SpecApp /\ AppFairness

----------------------------------------------------------------------------
(* format_results of search.py. Similarities are given in thousandths and  *)
(* a product similarity * 100 in units of 1/ProductUnit; texts are         *)
(* sequences of one-character strings.                                     *)

\* the units per 1 of a product similarity * 100
ProductUnit == 10000
\* "if len(text) > 500"
TextLimit == 500
\* "text[:497]"
TextKept == 497

\* the similarities of the results that are formatted, in thousandths
Similarities == {-500, 0, 5, 290, 500, 570, 695, 700, 705, 850, 855, 995, 999, 1000}

\* the similarities whose double product with 100 falls short of the exact
\* product: 0.29 * 100 is 28.999999999999996 and 0.57 * 100 is
\* 56.99999999999999; the products of the other similarities are exact
ShortProducts == {290, 570}

\* result["similarity"] * 100 in double arithmetic
Times100(similarity) ==
    similarity * (ProductUnit \div 10) - (IF similarity \in ShortProducts THEN 1 ELSE 0)

\* int(x): the fraction is cut off, towards zero
IntOf(x) == IF x >= 0 THEN x \div ProductUnit ELSE -((-x) \div ProductUnit)

\* the characters of the texts
Digits == <<"0", "1", "2", "3", "4", "5", "6", "7", "8", "9">>
\* a text of n characters: the last digit of each position
TextOf(n) == [i \in 1..n |-> Digits[(i % 10) + 1]]
Ellipsis == <<".", ".", ".">>

\* the texts of the results
ResultTexts == {TextOf(0), TextOf(TextKept), TextOf(TextLimit), TextOf(TextLimit + 1)}

\* the document metadata of the results: the dictionary add_document was
\* given, or {} for a document that the store does not hold
DocumentMetadatas ==
    {[title |-> "Custom Test Document", authors |-> <<"Test Author", "Other Author">>,
      publication_date |-> "2023-01-01", document_type |-> "article"],
     [title |-> "", authors |-> <<"Test Author">>, document_type |-> "book"],
     [authors |-> <<>>, publication_date |-> ""],
     <<>>}

\* the chunk metadata of the results
ChunkMetadatas == {[page_number |-> 1, section |-> "Introduction"], <<>>}

\* the default taken although the key is there
GetDefault(dict, key, default) == default

\* dict.get(key, default)
Get(dict, key, default) == IF key \in DOMAIN dict THEN dict[key] ELSE default

\* dict.get(key): the value as a one-element set, None as the empty set
GetOrNone(dict, key) == IF key \in DOMAIN dict THEN {dict[key]} ELSE {}

RECURSIVE Join(_)
\* ", ".join(authors)
Join(authors) ==
    IF authors = <<>> THEN ""
    ELSE IF Len(authors) = 1 THEN authors[1]
    ELSE authors[1] \o ", " \o Join(Tail(authors))

\* the results format_results is called with: one result, or two
SearchResult(chunk_id, similarity, text, metadata, document_metadata) ==
    [chunk_id |-> chunk_id, document_id |-> "doc_test", text |-> text,
     metadata |-> metadata, document_metadata |-> document_metadata,
     similarity |-> similarity]
ResultLists ==
    {<<>>}
    \cup {<<SearchResult("chunk_1", s, t, m, d)>> :
             s \in Similarities, t \in ResultTexts, m \in ChunkMetadatas,
             d \in DocumentMetadatas}
    \cup {<<SearchResult("chunk_1", s1, TextOf(0), <<>>, <<>>),
            SearchResult("chunk_2", s2, TextOf(TextLimit + 1), <<>>, <<>>)>> :
             s1 \in Similarities, s2 \in Similarities}

\* "similarity_pct = int(result["similarity"] * 100)"
Percentage(similarity) == IntOf(Times100(similarity))

\* the first 500 characters kept in front of the marker
TruncatedAtLimit(text) ==
    IF Len(text) > TextLimit THEN SubSeq(text, 1, TextLimit) \o Ellipsis ELSE text

\* "if len(text) > 500: text = text[:497] + "...""
Truncated(text) ==
    IF Len(text) > TextLimit THEN SubSeq(text, 1, TextKept) \o Ellipsis ELSE text

\* the formatted result of one result
FormattedResult(result) ==
    LET doc_metadata == result.document_metadata
        authors == Get(doc_metadata, "authors", <<>>)
    IN  [title |-> Get(doc_metadata, "title", "Untitled Document"),
         authors |-> IF authors # <<>> THEN Join(authors) ELSE "Unknown Author",
         similarity |-> Percentage(result.similarity),
         text |-> Truncated(result.text),
         document_id |-> result.document_id,
         chunk_id |-> result.chunk_id,
         metadata |-> [page_number |-> GetOrNone(result.metadata, "page_number"),
                       section |-> GetOrNone(result.metadata, "section"),
                       publication_date |-> GetOrNone(doc_metadata, "publication_date"),
                       document_type |-> GetOrNone(doc_metadata, "document_type")]]

\* the last formatted result not appended
FormattedResultsButLast(results) ==
    [i \in 1..(Len(results) - 1) |-> FormattedResult(results[i])]

\* the loop: one formatted result appended per result, in order
FormattedResults(results) ==
    [i \in 1..Len(results) |-> FormattedResult(results[i])]

\* a result dictionary after the loop body ran on it: the body reads
\* result[...] and binds locals, it assigns to no key of result
ResultAfter(result) == result

\* SearchManager.format_results: the argument, the list as it is after the
\* call, and the list returned
FormatResults ==
    \E results \in ResultLists :
        /\ formatOut' = [called |-> TRUE, results |-> results,
                         results_after |-> [i \in 1..Len(results) |-> ResultAfter(results[i])],
                         formatted |-> FormattedResults(results)]
        /\ UNCHANGED <<libraries, documents, chunks, searchOut, readOut, artifact>>
        /\ UNCHANGED zoteroVars
        /\ UNCHANGED ingestVars
        /\ UNCHANGED runVars

NextFormat == FormatResults

SpecFormat == Init /\ [][NextFormat]_vars

----------------------------------------------------------------------------
(* The cached OCR artifact: the file store_ocr_as_attachment writes and    *)
(* download_and_parse_ocr_attachment reads. Texts are sequences of         *)
(* one-character strings.                                                  *)

\* the texts written have at most MaxTextLen characters, or are built
\* around a run of dashes
MaxTextLen == 2

\* "-" * 80
SeparatorLength == 80
\* text_content.split("\n")[:10]
VersionLines == 10

Dashes(n) == [i \in 1..n |-> "-"]
Newlines(n) == [i \in 1..n |-> "\n"]
Separator == Dashes(SeparatorLength)

\* the characters str.strip() removes
Whitespace == {" ", "\n", "\t", "\r"}

\* "Z-Cite OCR Text\n"
TitleLine ==
    <<"Z", "-", "C", "i", "t", "e", " ", "O", "C", "R", " ", "T", "e", "x", "t", "\n">>
\* "Version:"
VersionPrefix == <<"V", "e", "r", "s", "i", "o", "n", ":">>
\* "Processed: "
ProcessedPrefix == <<"P", "r", "o", "c", "e", "s", "s", "e", "d", ":", " ">>
\* "Document: "
DocumentPrefix == <<"D", "o", "c", "u", "m", "e", "n", "t", ":", " ">>

\* f"{int(time.time())}": a run of digits
VersionHashes == {<<"1", "7">>, <<"1", "8">>}
\* datetime.now().isoformat()
ProcessedStamp ==
    <<"2", "0", "2", "6", "-", "1", "1", "-", "0", "1", "T", "0", "5", ":", "0", "0">>
\* the item key as characters
KeyChars(k) == IF k = "k1" THEN <<"k", "1">> ELSE <<"k", "2">>

ArtifactAlphabet == {"a", " ", "\n", "-"}
\* the OCR texts handed to store_ocr_as_attachment
ArtifactTexts ==
    UNION {[1..n -> ArtifactAlphabet] : n \in 0..MaxTextLen}
    \cup {Separator,
          Dashes(SeparatorLength - 1),
          Dashes(SeparatorLength + 1),
          <<"a", "\n">> \o Separator \o <<"\n", "b">>,
          <<" ">> \o Separator \o <<"\n">>}

\* what a z-cite-ocr attachment that this program did not write may hold
ForeignBodies ==
    {VersionPrefix \o <<" ", "1", "7", " ", "\n", "a">>,
     VersionPrefix \o VersionPrefix \o <<"1">>,
     <<" ">> \o VersionPrefix \o <<"1", "\n", " ", "a", "\n">>,
     <<" ", "a", " ">>,
     Dashes(SeparatorLength - 1) \o <<"\n", "-">>,
     <<"a">> \o Separator \o <<" ", "b", " ">>}
ForeignContents ==
    {Newlines(n) \o body : n \in 0..(VersionLines + 1), body \in ForeignBodies}

\* str.find(sub) + 1: the position of the first occurrence, 0 for none
Find(s, sub) ==
    LET pos == {i \in 1..(Len(s) - Len(sub) + 1) : SubSeq(s, i, i + Len(sub) - 1) = sub}
    IN  IF pos = {} THEN 0 ELSE CHOOSE i \in pos : \A j \in pos : i <= j

\* s.split(sep, 1)
SplitOnce(s, sep) ==
    LET p == Find(s, sep)
    IN  IF p = 0 THEN <<s>>
        ELSE <<SubSeq(s, 1, p - 1), SubSeq(s, p + Len(sep), Len(s))>>

RECURSIVE SplitLines(_)
\* s.split("\n")
SplitLines(s) ==
    LET parts == SplitOnce(s, <<"\n">>)
    IN  IF Len(parts) = 1 THEN parts ELSE <<parts[1]>> \o SplitLines(parts[2])

RECURSIVE RemoveAll(_, _)
\* s.replace(sub, "")
RemoveAll(s, sub) ==
    LET parts == SplitOnce(s, sub)
    IN  IF Len(parts) = 1 THEN s ELSE parts[1] \o RemoveAll(parts[2], sub)

RECURSIVE LStrip(_)
LStrip(s) == IF s # <<>> /\ Head(s) \in Whitespace THEN LStrip(Tail(s)) ELSE s

RECURSIVE RStrip(_)
RStrip(s) ==
    IF s # <<>> /\ s[Len(s)] \in Whitespace THEN RStrip(SubSeq(s, 1, Len(s) - 1)) ELSE s

\* s.strip()
StrStrip(s) == RStrip(LStrip(s))

\* s.startswith(prefix)
StartsWith(s, prefix) == Len(s) >= Len(prefix) /\ SubSeq(s, 1, Len(prefix)) = prefix

\* the file store_ocr_as_attachment writes: four header lines, the separator
\* line, an empty line, the text
StoreContent(item_key, version_hash, processed, ocr_text) ==
    TitleLine
    \o VersionPrefix \o <<" ">> \o version_hash \o <<"\n">>
    \o ProcessedPrefix \o processed \o <<"\n">>
    \o DocumentPrefix \o item_key \o <<"\n">>
    \o Separator \o <<"\n", "\n">>
    \o ocr_text

\* every line searched for the version
FirstLinesAll(lines) == lines

\* [:10]
FirstLines(lines) == SubSeq(lines, 1, Min(VersionLines, Len(lines)))

\* the loop that extracts the version hash
VersionHash(text_content) ==
    LET lines == FirstLines(SplitLines(text_content))
        found == {i \in 1..Len(lines) : StartsWith(lines[i], VersionPrefix)}
    IN  IF found = {} THEN <<>>
        ELSE LET first == CHOOSE i \in found : \A j \in found : i <= j
             IN  StrStrip(RemoveAll(lines[first], VersionPrefix))

\* the text behind the first separator, stripped; without a separator the
\* whole content
OcrText(text_content) ==
    LET parts == SplitOnce(text_content, Separator)
    IN  IF Len(parts) > 1 THEN StrStrip(parts[2]) ELSE text_content

\* download_and_parse_ocr_attachment on a content that was downloaded and
\* decoded
ParseOcr(text_content) ==
    [done |-> TRUE, fetched |-> TRUE,
     ocr_text |-> OcrText(text_content), version_hash |-> VersionHash(text_content)]

\* except Exception: return "", ""
FailedParse == [done |-> TRUE, fetched |-> FALSE, ocr_text |-> <<>>, version_hash |-> <<>>]

\* the file of store_ocr_as_attachment(item_key, ocr_text) is written
WriteOcrFile ==
    \E k \in Items, version_hash \in VersionHashes, ocr_text \in ArtifactTexts :
        /\ artifact' = [origin |-> "written", ocr_text |-> ocr_text,
                        content |-> StoreContent(KeyChars(k), version_hash,
                                                 ProcessedStamp, ocr_text),
                        parsed |-> NoParse]
        /\ UNCHANGED <<libraries, documents, chunks, searchOut, readOut, formatOut>>
        /\ UNCHANGED zoteroVars
        /\ UNCHANGED ingestVars
        /\ UNCHANGED runVars

\* a z-cite-ocr attachment is put on the item from elsewhere
PlaceAttachment ==
    \E content \in ForeignContents :
        /\ artifact' = [origin |-> "foreign", ocr_text |-> <<>>,
                        content |-> content, parsed |-> NoParse]
        /\ UNCHANGED <<libraries, documents, chunks, searchOut, readOut, formatOut>>
        /\ UNCHANGED zoteroVars
        /\ UNCHANGED ingestVars
        /\ UNCHANGED runVars

\* download_and_parse_ocr_attachment: the download or the decoding may raise
DownloadAndParseOcrAttachment ==
    /\ artifact.origin # "none"
    /\ ~artifact.parsed.done
    /\ \E fetched \in BOOLEAN :
           artifact' = [artifact EXCEPT
                            !.parsed = IF fetched THEN ParseOcr(artifact.content)
                                       ELSE FailedParse]
    /\ UNCHANGED <<libraries, documents, chunks, searchOut, readOut, formatOut>>
    /\ UNCHANGED zoteroVars
    /\ UNCHANGED ingestVars
    /\ UNCHANGED runVars

NextArtifact == WriteOcrFile \/ PlaceAttachment \/ DownloadAndParseOcrAttachment

SpecArtifact == Init /\ [][NextArtifact]_vars

----------------------------------------------------------------------------
(* ZoteroManager: the key, the library and the client (zotero.py) *)

\* the keys the manager is given; the service accepts the keys of ValidKeys
ApiKeys == {"valid_key", "other_valid_key", "invalid_key"}
ValidKeys == {"valid_key", "other_valid_key"}
\* default_group_id
DefaultGroupId == "5140532"
\* the libraries switch_library is called with
LibraryTypes == {"group", "user"}
ZoteroLibraryIds == {DefaultGroupId, "A"}

\* zotero.Zotero(library_id, library_type, self.api_key)
Client(library_id, library_type, api_key) ==
    [library_id |-> library_id, library_type |-> library_type, api_key |-> api_key]

\* the effect of switch_library on a manager that has a key
Switched(manager, library_type, library_id) ==
    [manager EXCEPT !.library_type = library_type,
                    !.library_id = library_id,
                    !.zot = Client(library_id, library_type, manager.api_key)]

\* "if response.status_code != 200: return False": the manager keeps what
\* it has
AfterRejected(manager) == manager

\* initialize(api_key): the key is taken over when one is given; the request
\* to keys/current may raise, answer with another status than 200, or answer
\* 200 for a key the service accepts
Initialize ==
    \E api_key \in ApiKeys \cup {None}, raises \in BOOLEAN :
        LET keyed == [zotero_manager EXCEPT !.api_key = IF api_key # None THEN api_key ELSE @]
        IN  /\ IF keyed.api_key = None
               THEN /\ zotero_manager' = keyed
                    /\ connOut' = [op |-> "initialize", ret |-> FALSE, raised |-> FALSE]
               ELSE IF raises
               THEN /\ zotero_manager' = keyed
                    /\ connOut' = [op |-> "initialize", ret |-> FALSE, raised |-> FALSE]
               ELSE IF keyed.api_key \notin ValidKeys
               THEN /\ zotero_manager' = AfterRejected(keyed)
                    /\ connOut' = [op |-> "initialize", ret |-> FALSE, raised |-> FALSE]
               ELSE /\ zotero_manager' = Switched(keyed, "group", DefaultGroupId)
                    /\ connOut' = [op |-> "initialize", ret |-> TRUE, raised |-> FALSE]
            /\ UNCHANGED <<libraries, documents, chunks, searchOut, readOut,
                           artifact, formatOut>>
            /\ UNCHANGED ingestVars
            /\ UNCHANGED runVars

\* test_connection: zot.items(limit=1) raises when the request fails or the
\* service rejects the key of the client
TestConnection ==
    \E served \in BOOLEAN :
        /\ connOut' = [op |-> "test_connection",
                       ret |-> /\ zotero_manager.zot # NoClient
                               /\ served
                               /\ zotero_manager.zot.api_key \in ValidKeys,
                       raised |-> FALSE]
        /\ UNCHANGED <<libraries, documents, chunks, searchOut, readOut,
                       artifact, formatOut, zotero_manager>>
        /\ UNCHANGED ingestVars
        /\ UNCHANGED runVars

\* switch_library(library_type, library_id)
SwitchLibrary ==
    \E library_type \in LibraryTypes, library_id \in ZoteroLibraryIds :
        /\ IF zotero_manager.api_key = None
           THEN /\ connOut' = [op |-> "switch_library", ret |-> FALSE, raised |-> FALSE]
                /\ UNCHANGED zotero_manager
           ELSE /\ zotero_manager' = Switched(zotero_manager, library_type, library_id)
                /\ connOut' = [op |-> "switch_library", ret |-> TRUE, raised |-> FALSE]
        /\ UNCHANGED <<libraries, documents, chunks, searchOut, readOut,
                       artifact, formatOut>>
        /\ UNCHANGED ingestVars
        /\ UNCHANGED runVars

NextZotero == Initialize \/ TestConnection \/ SwitchLibrary

SpecZotero == Init /\ [][NextZotero]_vars

NextIngest == SetProcessingOptions \/ ProcessDocument

\* the title of an item is edited in the source system
EditTitle ==
    \E k \in IngestItems, title \in Titles :
        /\ lib.pc # "loop"
        /\ title # titles[k]
        /\ titles' = [titles EXCEPT ![k] = title]
        /\ UNCHANGED <<libraries, documents, chunks, searchOut, readOut, lib, session>>
        /\ UNCHANGED ingestVars
        /\ UNCHANGED pureVars

\* documents ingested again after their items were edited
NextReingest == EditTitle \/ ProcessDocument

SpecReingest == Init /\ [][NextReingest]_vars

SpecIngest == Init /\ [][NextIngest]_vars

NextSearch == AddDocument \/ AddChunk \/ Search

NextStore ==
    AddLibrary \/ AddDocument \/ AddChunk \/ Search \/ GetLibraries \/ GetStatistics

SpecStore == Init /\ [][NextStore]_vars

\* every operation
Next ==
    \/ AddLibrary \/ AddDocument \/ AddChunk
    \/ Search \/ GetLibraries \/ GetStatistics
    \/ SetProcessingOptions \/ ProcessDocument
    \/ WriteOcrFile \/ PlaceAttachment \/ DownloadAndParseOcrAttachment
    \/ ProcessLibraryBegin \/ ProcessLibraryDocument
    \/ EditTitle
    \/ FormatResults
    \/ Initialize \/ TestConnection \/ SwitchLibrary
    \/ FetchLibraries \/ ProcessSelectedLibraries \/ Rerun
    \/ StatusSection \/ StatusDocument \/ StatusLibraryDone

Spec == Init /\ [][Next]_vars

SpecSearch == Init /\ [][NextSearch]_vars

----------------------------------------------------------------------------
(* Properties of the search *)

Returned == searchOut.status = "returned"
Filtering == searchOut.library_ids.given /\ searchOut.library_ids.ids # <<>>
Similarity(c) == SimOne - Distance(c.text, searchOut.query)
\* the outcomes search can have for the given arguments in the current store
SearchOutcomes(q, n, t, l) ==
    {SortBySimilarity(ProcessResults(hits, q, t)) : hits \in QueryResults(q, n, WhereClause(l))}

\* C1: every result that search_chunks, and so search, returns has a
\* similarity of at least the threshold it was called with
ThresholdRespected ==
    Returned =>
        /\ \A i \in 1..Len(searchOut.raw) :
               searchOut.raw[i].similarity >= searchOut.threshold
        /\ \A i \in 1..Len(searchOut.results) :
               searchOut.results[i].similarity >= searchOut.threshold

\* a search that returned a result and had a nearer-than-limit chunk below
\* the threshold to discard
ThresholdWitness ==
    /\ Returned
    /\ searchOut.results # <<>>
    /\ ~Filtering
    /\ Len(chunks) <= searchOut.n_results
    /\ \E i \in 1..Len(chunks) : Similarity(chunks[i]) < searchOut.threshold

RawIndex(r) == CHOOSE k \in 1..Len(searchOut.raw) : searchOut.raw[k] = r

\* C2: search returns the results of search_chunks, none added and none
\* dropped, in non-increasing similarity, results of equal similarity in the
\* order search_chunks returned them
SortedStable ==
    Returned =>
        LET raw == searchOut.raw
            res == searchOut.results
        IN  /\ Len(res) = Len(raw)
            /\ \A i \in 1..Len(res) : \E k \in 1..Len(raw) : raw[k] = res[i]
            /\ \A k \in 1..Len(raw) : \E i \in 1..Len(res) : res[i] = raw[k]
            /\ \A i, j \in 1..Len(res) :
                   i < j => /\ res[i].similarity >= res[j].similarity
                            /\ res[i].similarity = res[j].similarity
                                   => RawIndex(res[i]) < RawIndex(res[j])

\* a search that returned two results of equal similarity
SortedStableWitness ==
    /\ Returned
    /\ Len(searchOut.results) >= 2
    /\ searchOut.results[1].similarity = searchOut.results[2].similarity
    /\ searchOut.results[1] # searchOut.results[2]

\* C3: a non-empty library_ids that matches no document yields no result
NoMatchingDocumentYieldsNothing ==
    (Returned /\ Filtering /\ LibraryDocs(searchOut.library_ids.ids) = <<>>)
        => searchOut.results = <<>>

EmptyListIsNoFilter ==
    LET other(l) == IF l = NoneIds THEN ListIds(<<>>) ELSE NoneIds
    IN  (Returned /\ ~Filtering)
            => searchOut.results \in
                   SearchOutcomes(searchOut.query, searchOut.n_results,
                                  searchOut.threshold, other(searchOut.library_ids))

\* a search with library_ids=[] that returned a result
EmptyListWitness ==
    /\ Returned
    /\ searchOut.library_ids = ListIds(<<>>)
    /\ searchOut.results # <<>>

\* C6: every result has a similarity in [0,1]
SimilarityInUnitInterval ==
    Returned =>
        \A i \in 1..Len(searchOut.results) :
            /\ searchOut.results[i].similarity >= 0
            /\ searchOut.results[i].similarity <= SimOne

----------------------------------------------------------------------------
(* Properties of the read operations *)

ReadOps == {"get_libraries", "get_statistics"}

\* C7: no read operation of the manager lets a failure of the store reach its
\* caller as an exception
NoReadRaises ==
    /\ searchOut.status # "raised"
    /\ readOut.status # "raised"

\* C8 (state part): get_libraries and get_statistics return; when the store
\* answers they report the libraries and the exact number of records of each
\* collection, and when it fails they report [] and zeros; on an empty store
\* that is [] and zeros either way
ReadsReport ==
    /\ readOut.op \in ReadOps => readOut.status = "returned"
    /\ readOut.op = "get_statistics" =>
           /\ ~readOut.failed =>
                  /\ readOut.statistics.libraries = Len(libraries)
                  /\ readOut.statistics.documents = Len(documents)
                  /\ readOut.statistics.chunks = Len(chunks)
           /\ readOut.failed => readOut.statistics = NoStatistics
           /\ (libraries = <<>> /\ documents = <<>> /\ chunks = <<>>)
                  => readOut.statistics = NoStatistics
    /\ readOut.op = "get_libraries" =>
           /\ ~readOut.failed =>
                  /\ Len(readOut.libraries) = Len(libraries)
                  /\ \A i \in 1..Len(libraries) :
                         /\ readOut.libraries[i].id = libraries[i].id
                         /\ readOut.libraries[i].metadata = libraries[i].metadata
           /\ readOut.failed => readOut.libraries = <<>>
           /\ libraries = <<>> => readOut.libraries = <<>>

\* C8: get_libraries and get_statistics are total and read-only: ReadsReport
\* holds in every state, and a step of either leaves the three collections
\* as they were
ReadsTotalReadOnly ==
    /\ []ReadsReport
    /\ [][(readOut' # readOut /\ readOut'.op \in ReadOps)
              => UNCHANGED <<libraries, documents, chunks>>]_vars

\* get_statistics answered on a store that holds records in every collection,
\* with different numbers of documents and chunks
ReadsWitness ==
    /\ readOut.op = "get_statistics"
    /\ ~readOut.failed
    /\ libraries # <<>>
    /\ Len(documents) = 1
    /\ Len(chunks) = 2

\* the entries of a list of libraries that have the id and the name,
\* library_type and description of library_data
Matching(libs, library_data) ==
    {j \in 1..Len(libs) :
        /\ libs[j].id = library_data.id
        /\ libs[j].metadata.name = library_data.name
        /\ libs[j].metadata.library_type = library_data.library_type
        /\ libs[j].metadata.description = library_data.description}

\* C19: add_library returns True, the libraries collection then holds
\* exactly one record with the id of library_data and it has its name,
\* library_type and description, documents and chunks are left as they were,
\* and a get_libraries that follows lists that entry
AddLibraryWritesRecord ==
    /\ [][readOut'.op = "add_library" =>
              /\ readOut'.ok
              /\ Cardinality({j \in 1..Len(libraries') :
                                 libraries'[j].id = readOut'.library_data.id}) = 1
              /\ Matching(libraries', readOut'.library_data) # {}
              /\ UNCHANGED <<documents, chunks>>]_vars
    /\ [][(readOut.op = "add_library" /\ readOut'.op = "get_libraries") =>
              Matching(readOut'.libraries, readOut.library_data) # {}]_vars

----------------------------------------------------------------------------
(* Properties of process_document *)

PdfCalls == {"get_pdf_attachment", "download_pdf", "process_pdf"}

\* C9: with use_stored_ocr set, always_rerun_ocr unset and an OCR attachment
\* on the item, process_document neither looks up nor downloads the PDF and
\* runs no OCR
CachedTextMeansNoPdf ==
    (procOut.doc # "" /\ UseStoredOcr /\ procOut.had_ocr)
        => procOut.calls \cap PdfCalls = {}

\* C10: the temporary PDF file does not exist once process_document has
\* returned
TempPdfRemoved == PdfTemp \notin tmpFiles

\* process_document created the temporary file and returned False after the
\* download had succeeded: the OCR raised, or a write to the store failed
TempPdfWitness ==
    /\ procOut.doc # ""
    /\ "process_pdf" \in procOut.calls
    /\ ~procOut.ret

\* the last process_document call asked for the PDF attachment and found none
NoPdfFound ==
    /\ procOut.doc # ""
    /\ "get_pdf_attachment" \in procOut.calls
    /\ "download_pdf" \notin procOut.calls

\* C13: a process_document call that needs the PDF (no cached text was
\* obtained, or the refresh is forced) and finds no PDF attachment returns
\* False and leaves the documents, the chunks and the item's OCR attachments
\* as they were
NoPdfNoWrites ==
    [][NoPdfFound' =>
          /\ ~procOut'.ret
          /\ UNCHANGED <<documents, chunks, ocrAtt>>]_vars

\* process_document found no PDF under a forced refresh, on an item that
\* has a cached text, with store_ocr set
NoPdfWitness ==
    /\ NoPdfFound
    /\ options.always_rerun_ocr
    /\ options.store_ocr
    /\ procOut.had_ocr

\* the records of the documents collection with the id of the document last
\* ingested
RecordsOfLast == SelectSeq(documents, LAMBDA d : d.id = procOut.doc)

\* C16: after a process_document call that succeeded, the documents
\* collection holds exactly one record with the document's id, and it
\* carries the metadata that call was given
ReingestionUpserts ==
    (procOut.doc # "" /\ procOut.ret) =>
        /\ Len(RecordsOfLast) = 1
        /\ RecordsOfLast[1].metadata.title = procOut.title

\* C17: every record of the chunks collection has the document_id of a
\* record of the documents collection
ChunksReferToDocuments ==
    \A i \in 1..Len(chunks) : chunks[i].document_id \in Ids(documents)

\* the store holds a chunk, and the last process_document call wrote the
\* Document record and failed to write the chunk
ChunksReferWitness ==
    /\ chunks # <<>>
    /\ procOut.doc # ""
    /\ ~procOut.ret
    /\ "add_chunk" \in procOut.calls

\* C18: no chunk that process_document wrote has an empty text
ChunkTextNonEmpty ==
    \A i \in 1..Len(chunks) : chunks[i].text # ""

----------------------------------------------------------------------------
(* Properties of process_library *)

LibraryReturned == lib.pc = "returned"

\* C14: process_library goes through every document of the (limited) list
\* once and in order, whatever happened to the earlier ones, and returns
\* (total, processed, errors) with total the number of documents gone
\* through and processed + len(errors) = total; in the loop the documents
\* gone through so far are the first i of the list, and they are all counted
LibraryRunAccounted ==
    /\ lib.processed_documents + Len(lib.errors) = lib.i
    /\ Len(lib.visited) = lib.i
    /\ lib.i <= lib.total_documents
    /\ \A j \in 1..Len(lib.visited) : lib.visited[j] = lib.documents[j].zotero_key
    /\ lib.pc \in {"idle", "loop", "returned"}
    /\ lib.pc = "loop" => lib.i < lib.total_documents
    /\ LibraryReturned =>
           /\ lib.total_documents = Len(lib.documents)
           /\ Len(lib.visited) = lib.total_documents
           /\ lib.processed_documents + Len(lib.errors) = lib.total_documents

\* process_library returned from a list of two documents of which the first
\* failed and the second was processed
LibraryRunWitness ==
    /\ LibraryReturned
    /\ lib.total_documents = 2
    /\ lib.processed_documents = 1
    /\ Len(lib.errors) = 1
    /\ lib.errors[1].title = lib.documents[1].title
    /\ procOut.ret

\* C15: the callback is called once per document with (index, total, title,
\* stage), and a run with a callback does to every document what a run
\* without one does: it hands the document to process_document, and its
\* errors are those of process_document returning False
CallbackObservational ==
    LibraryReturned =>
        /\ lib.callback =>
               /\ Len(lib.reported) = lib.total_documents
               /\ \A j \in 1..Len(lib.reported) :
                      lib.reported[j] = [i |-> j - 1, total |-> lib.total_documents,
                                         title |-> lib.documents[j].title,
                                         stage |-> "OCR"]
        /\ lib.attempted = lib.visited
        /\ \A j \in 1..Len(lib.errors) : lib.errors[j].kind = "Failed to process"

----------------------------------------------------------------------------
(* Properties of the cached OCR artifact *)

Parsed == artifact.parsed.done /\ artifact.parsed.fetched

\* C11: the text parsed from the file that store_ocr_as_attachment wrote for
\* a text is that text, unchanged
RoundTrip ==
    (artifact.origin = "written" /\ Parsed)
        => artifact.parsed.ocr_text = artifact.ocr_text

\* C12: a content without a separator line is parsed without failure: the
\* text is the whole content, and the version hash is what follows
\* "Version:" on the first of the first ten lines that starts with it, or is
\* empty when none of them does
UnseparatedContentIsText ==
    (Parsed /\ Find(artifact.content, Separator) = 0) =>
        LET lines == SplitLines(artifact.content)
            heads == {i \in 1..Len(lines) :
                         i <= VersionLines /\ StartsWith(lines[i], VersionPrefix)}
        IN  /\ artifact.parsed.ocr_text = artifact.content
            /\ heads = {} => artifact.parsed.version_hash = <<>>
            /\ heads # {} =>
                   \E i \in heads :
                       /\ \A j \in heads : i <= j
                       /\ artifact.parsed.version_hash
                              = StrStrip(RemoveAll(lines[i], VersionPrefix))

\* a content without a separator was parsed: it has white space at both ends
\* and a "Version:" line behind the tenth line only
UnseparatedWitness ==
    /\ Parsed
    /\ Find(artifact.content, Separator) = 0
    /\ artifact.content # StrStrip(artifact.content)
    /\ LET lines == SplitLines(artifact.content)
       IN  /\ \E i \in 1..Len(lines) : StartsWith(lines[i], VersionPrefix)
           /\ \A i \in 1..Len(lines) :
                  StartsWith(lines[i], VersionPrefix) => i > VersionLines

----------------------------------------------------------------------------
(* Properties of format_results *)

\* round(x): to the nearest integer, a half to the even one
Round(x) ==
    LET floor == x \div ProductUnit
        rest == x - floor * ProductUnit
    IN  IF 2 * rest < ProductUnit THEN floor
        ELSE IF 2 * rest > ProductUnit THEN floor + 1
        ELSE IF floor % 2 = 0 THEN floor ELSE floor + 1

\* C20: the similarity of each formatted result is the integer
\* round(similarity * 100) of the result it was made from, and so at least
\* 70 when that similarity is at least 0.7
PercentageIsRounded ==
    formatOut.called =>
        \A i \in 1..Len(formatOut.results) :
            /\ formatOut.formatted[i].similarity
                   = Round(Times100(formatOut.results[i].similarity))
            /\ formatOut.results[i].similarity >= 700
                   => formatOut.formatted[i].similarity >= 70

FormattedPairs ==
    {<<formatOut.results[i], formatOut.formatted[i]>> :
        i \in 1..Min(Len(formatOut.results), Len(formatOut.formatted))}

\* C21: no formatted text is longer than 500 characters: a text of at most
\* 500 characters is carried through unchanged, a longer one is replaced by
\* its first 497 characters followed by "...", 500 characters in all
TextAtMostLimit ==
    formatOut.called =>
        \A p \in FormattedPairs :
            LET text == p[1].text
                shown == p[2].text
            IN  /\ Len(shown) <= 500
                /\ Len(text) <= 500 => shown = text
                /\ Len(text) > 500 =>
                       /\ Len(shown) = 500
                       /\ \A i \in 1..497 : shown[i] = text[i]
                       /\ \A i \in 498..500 : shown[i] = "."

\* a text of 501 characters was formatted
TextWitness ==
    /\ formatOut.called
    /\ \E p \in FormattedPairs : Len(p[1].text) = 501 /\ Len(p[2].text) = 500

\* C22: the formatted title is the title of the document metadata, or
\* "Untitled Document" when it has none; the authors are the names joined by
\* ", " in order, or "Unknown Author" when the list is empty or absent; page
\* number, section, publication date and document type are those of the
\* chunk and document metadata, or None
TitleAuthorsDefaults ==
    formatOut.called =>
        \A p \in FormattedPairs :
            LET d == p[1].document_metadata
                m == p[1].metadata
                f == p[2]
                carried(dict, key, shown) ==
                    IF key \in DOMAIN dict THEN shown = {dict[key]} ELSE shown = {}
            IN  /\ IF "title" \in DOMAIN d THEN f.title = d.title
                   ELSE f.title = "Untitled Document"
                /\ IF "authors" \in DOMAIN d /\ d.authors # <<>>
                   THEN /\ Len(d.authors) = 1 => f.authors = d.authors[1]
                        /\ Len(d.authors) = 2 =>
                               f.authors = d.authors[1] \o ", " \o d.authors[2]
                   ELSE f.authors = "Unknown Author"
                /\ carried(m, "page_number", f.metadata.page_number)
                /\ carried(m, "section", f.metadata.section)
                /\ carried(d, "publication_date", f.metadata.publication_date)
                /\ carried(d, "document_type", f.metadata.document_type)

\* a result with a title, two authors and full metadata was formatted
TitleAuthorsWitness ==
    /\ formatOut.called
    /\ \E p \in FormattedPairs :
           /\ "title" \in DOMAIN p[1].document_metadata
           /\ Len(p[1].document_metadata.authors) = 2
           /\ p[2].title = "Custom Test Document"
           /\ p[2].authors = "Test Author, Other Author"
           /\ p[2].metadata.page_number = {1}

CacheAsked == options.use_stored_ocr /\ ~options.always_rerun_ocr
CacheCalls == {"find_ocr_attachment", "download_and_parse_ocr_attachment"}

\* C25: when use_stored_ocr is false or always_rerun_ocr is true,
\* process_document does not look for the cached artifact and takes the
\* extraction path; when the cached text is asked for and no artifact is
\* found, it takes the extraction path as well. On that path the PDF is
\* located before it is downloaded and downloaded before the OCR runs
TextSourceSelection ==
    procOut.doc # "" =>
        /\ ~CacheAsked =>
               /\ procOut.calls \cap CacheCalls = {}
               /\ "get_pdf_attachment" \in procOut.calls
        /\ (CacheAsked /\ "download_and_parse_ocr_attachment" \notin procOut.calls) =>
               /\ "find_ocr_attachment" \in procOut.calls
               /\ "get_pdf_attachment" \in procOut.calls
        /\ "process_pdf" \in procOut.calls => "download_pdf" \in procOut.calls
        /\ "download_pdf" \in procOut.calls => "get_pdf_attachment" \in procOut.calls

\* always_rerun_ocr is set next to use_stored_ocr, the item has a cached
\* artifact, and the document went through the OCR without a look at it
TextSourceWitness ==
    /\ procOut.doc # ""
    /\ options.use_stored_ocr
    /\ options.always_rerun_ocr
    /\ procOut.had_ocr
    /\ procOut.calls \cap CacheCalls = {}
    /\ "process_pdf" \in procOut.calls

\* C27: a process_document call that returns True has added one chunk to the
\* chunks collection and nothing else: the chunk has an id that no chunk had
\* before, the document_id of the document ingested, the whole text the call
\* obtained, page_number 1, section "Full Document" and the version marker
\* of that text, whatever chunk_size and chunk_overlap are set
OneChunkPerDocument ==
    [][(procOut'.doc # "" /\ procOut'.ret) =>
          /\ Len(chunks') = Len(chunks) + 1
          /\ SubSeq(chunks', 1, Len(chunks)) = chunks
          /\ LET c == chunks'[Len(chunks')]
             IN  /\ c.id \notin Ids(chunks)
                 /\ c.document_id = procOut'.doc
                 /\ procOut'.text = {c.text}
                 /\ c.metadata = [page_number |-> 1, section |-> "Full Document",
                                  version_hash |-> HashOf(c.text)]]_vars

\* a document ingested under chunk_size 256 and chunk_overlap 25, and the
\* chunk with its text
OneChunkWitness ==
    /\ procOut.doc # ""
    /\ procOut.ret
    /\ options.chunk_size = 256
    /\ options.chunk_overlap = 25
    /\ procOut.text = {" a"}
    /\ \E i \in 1..Len(chunks) : chunks[i].text = " a"

\* C28: a process_document call that returns False leaves the documents
\* collection and the chunks collection as they were
AllOrNothing ==
    [][(procOut'.doc # "" /\ ~procOut'.ret) => UNCHANGED <<documents, chunks>>]_vars

\* C26: after any sequence of ingestions each item has at most one
\* z-cite-ocr attachment; the text is written back only when store_ocr is
\* set and the text came out of the OCR in this call
WriteBackKeepsOne ==
    /\ \A k \in Items : Len(ocrAtt[k]) <= 1
    /\ "store_ocr_as_attachment" \in procOut.calls =>
           (options.store_ocr /\ "process_pdf" \in procOut.calls)

----------------------------------------------------------------------------
(* Properties of the ZoteroManager *)

KeyInvalid == zotero_manager.api_key # None /\ zotero_manager.api_key \notin ValidKeys

\* C24: for a ZoteroManager whose current API key is invalid, initialize and
\* test_connection return False and do not raise, after any sequence of
\* initialize calls
ConnectivityReported ==
    (connOut.op \in {"initialize", "test_connection"} /\ KeyInvalid)
        => (~connOut.ret /\ ~connOut.raised)

----------------------------------------------------------------------------
(* Properties of the libraries tab *)

\* C29: once the processing status is active with a list of libraries, the
\* runs reach a status that is not active and has an empty list
ProcessingFinishes ==
    session.processing_status.active ~>
        (~session.processing_status.active /\ session.processing_status.libraries = <<>>)

\* C30: whenever the progress bar is rendered, processed_documents is at
\* most total_documents
ProgressInRange ==
    session.progress.rendered =>
        session.progress.processed_documents <= session.progress.total_documents

====
